---- MODULE Spec2Model ----
(***************************************************************************)
(* Model of @hulla/control: the Result constructors ok and err, the shared *)
(* instance contract (isOk, isErr, match, pair, unwrap), the tcf adapter   *)
(* and the result discriminator, together with the host's promises: the    *)
(* promise heap, the reactions attached by then() and the microtask queue. *)
(***************************************************************************)
EXTENDS Integers, Sequences, FiniteSets, TLC

\* ------------------------------------------------------------------ bounds
MaxPromise == 3     \* promises the host allocates: a payload and those then() derives

\* ------------------------------------------------------------------ values
\* Every JavaScript value of the model is a record [kind, id].
Undefined == [kind |-> "undefined", id |-> 0]
Missing == [kind |-> "missing", id |-> 0]      \* a property the object lacks
Plain(i) == [kind |-> "plain", id |-> i]
ErrorObj(i) == [kind |-> "error", id |-> i]
PromiseRef(p) == [kind |-> "promise", id |-> p]
Bool(b) == [kind |-> "bool", id |-> IF b THEN 1 ELSE 0]
Fresh == [kind |-> "fresh", id |-> 0]          \* input: "a newly made promise"

PlainVals == {Plain(0)}
ErrorVals == {ErrorObj(0), ErrorObj(1)}
\* The non-promise payloads; undefined is one (ok(undefined), a void try).
Resolved == PlainVals \cup ErrorVals \cup {Undefined}
PromiseIds == 1..MaxPromise

\* A value returned by a call or held by a settled promise: one value, or the
\* two-element array pair() builds.
Single(v) == [kind |-> "single", fst |-> v, snd |-> Undefined]
Tuple(a, b) == [kind |-> "tuple", fst |-> a, snd |-> b]

\* mutant: the instanceof test never recognises a promise
IsPromiseNever(v) == FALSE
\* value instanceof Promise
IsPromise(v) == v.kind = "promise"
\* value instanceof Error
InstanceofError(v) == v.kind = "error"

\* ------------------------------------------------------------------ tags
NoTag == "<undefined>"                         \* the tag argument is absent
Tags == {"", "T"}
TagArgs == Tags \cup {NoTag}
DEFAULT_TAG_OK == "Ok"
DEFAULT_TAG_ERROR == "Err"

\* a ?? b
Nullish(a, b) == IF a = NoTag THEN b ELSE a
\* the truthiness of an optional string: undefined and "" are falsy
Truthy(a) == a # NoTag /\ a # ""

\* ------------------------------------------------------------------ handlers
\* The handlers callers pass to match: v => v and a transformer (v => v + 1,
\* e => e.message) whose output differs from its input.
Handlers == {"same", "flip"}
Apply(h, v) ==
  IF h = "same" THEN v
  ELSE [kind |-> IF v.kind = "plain" THEN "error" ELSE "plain", id |-> v.id]

\* ------------------------------------------------------------------ ok / err
\* The object a constructor returns: props (tag and value or error) spread
\* with methods; the methods close over the constructor's argument.
ok_isOk == TRUE
ok_isErr == FALSE
\* mutant: err built from a copy of ok keeps its isOk
err_isOkCopied == TRUE
err_isOk == FALSE
err_isErr == TRUE

okTag(tag) == Nullish(tag, DEFAULT_TAG_OK)
\* mutant: err tests the tag for truthiness, as result.ts does
errTagTruthy(tag) == IF Truthy(tag) THEN tag ELSE DEFAULT_TAG_ERROR
errTag(tag) == Nullish(tag, DEFAULT_TAG_ERROR)

\* mutant: ok turns an Error payload into an Err
okCoercesErrors(value, tag) ==
  IF value.kind = "error"
  THEN [methods |-> "err", captured |-> value, tag |-> errTag(tag), value |-> Missing,
        error |-> value]
  ELSE [methods |-> "ok", captured |-> value, tag |-> okTag(tag), value |-> value,
        error |-> Missing]
ok(value, tag) ==
  [methods |-> "ok", captured |-> value, tag |-> okTag(tag),
   value |-> value, error |-> Missing]

err(error, tag) ==
  [methods |-> "err", captured |-> error, tag |-> errTag(tag),
   value |-> Missing, error |-> error]

\* mutant: isOk discriminates on the tag instead of the variant
isOkByTag(inst) == inst.tag = DEFAULT_TAG_OK
isOk(inst) == IF inst.methods = "ok" THEN ok_isOk ELSE err_isOk
isErr(inst) == IF inst.methods = "ok" THEN ok_isErr ELSE err_isErr

\* The handler match invokes: ok.match calls its first argument, err.match
\* its second.
\* mutant: ok.match invokes its second argument
okMatchHandlerSecond(onOk, onErr) == [who |-> "onErr", h |-> onErr]
okMatchHandler(onOk, onErr) == [who |-> "onOk", h |-> onOk]
\* mutant: err.match copied from ok.match calls its first argument
errMatchHandlerFirst(onOk, onErr) == [who |-> "onOk", h |-> onOk]
errMatchHandler(onOk, onErr) == [who |-> "onErr", h |-> onErr]

\* The array pair builds from the resolved payload.
\* mutant: the Ok tuple carries the payload in both slots
okPairOfBoth(v) == Tuple(v, v)
okPairOf(v) == Tuple(v, Undefined)
\* mutant: err.pair puts the error in the first slot
errPairOfFirstSlot(e) == Tuple(e, Undefined)
errPairOf(e) == Tuple(Undefined, e)
pairOf(inst, v) == IF inst.methods = "ok" THEN okPairOf(v) ELSE errPairOf(v)

okUnwrap(inst) == inst.captured
\* mutant: err.unwrap copied from ok.unwrap reads the value field, absent on Err
errUnwrapValue(inst) == inst.value
errUnwrap(inst) == inst.captured
unwrap(inst) == IF inst.methods = "ok" THEN okUnwrap(inst) ELSE errUnwrap(inst)

\* ------------------------------------------------------------------ inputs
\* new HandledError(error.message): a new error object made from the fault
HandledError(f) == ErrorObj(f.id + 2)
\* What catchFn does with the fault: returns a new error, returns the fault
\* itself, returns a promise (an async catch), or throws.
CatchBehaviours == {"wrap", "same", "async", "throw"}
\* the faults a raising catch, a raising finally and a raising predicate throw
CatchFault == ErrorObj(8)
FinallyFault == ErrorObj(9)
PredicateFault == ErrorObj(7)

\* How the environment settles a payload promise: Promise.resolve(v), or a
\* rejection with a reason.
SettleOutcomes ==
  [state : {"fulfilled"}, val : {Plain(0), ErrorObj(0), Undefined}]
    \cup [state : {"rejected"}, val : {ErrorObj(1)}]

\* The isError predicates given to result: absent, or a type guard; "custom"
\* is v instanceof ValidationError, true of one of the error objects only.
Predicates == {"absent", "always", "never", "custom", "throws"}
PredicateSays(pred, v) ==
  IF pred = "always" THEN TRUE
  ELSE IF pred = "never" THEN FALSE
  ELSE v = ErrorObj(0)
ResultImpls == {"result.ts", "tcf.ts"}

NoInst == [methods |-> "none", captured |-> Missing, tag |-> NoTag,
           value |-> Missing, error |-> Missing]
NoCall == [op |-> "none", onOk |-> "-", onErr |-> "-", ret |-> Single(Undefined),
           invoked |-> <<>>]

\* ------------------------------------------------------------------ state
VARIABLES
  heap,        \* promise id -> [state, owner, val, by, invoked]: a derived promise
               \* carries the call that made it and the handlers its closure invoked
  reactions,   \* promise id -> the closures then() attached, not yet scheduled
  jobs,        \* the microtask queue
  inst,        \* the Result instance the caller holds, NoInst before it is built
  made,        \* the ok(...) or err(...) call that built it
  last,        \* the last method call that returned a resolved value: what it
               \* returned and the handlers it invoked (a call that returned a
               \* derived promise is recorded in that promise's cell)
  tcf,         \* the tcf invocation, in progress or finished
  tcfLog,      \* the callbacks that invocation has invoked, in order
  res          \* the result() invocation

vars == <<heap, reactions, jobs, inst, made, last, tcf, tcfLog, res>>

NoThen == [op |-> "none", who |-> "-", h |-> "-"]
FreeCell == [state |-> "free", owner |-> "none", val |-> Single(Undefined),
             by |-> NoThen, invoked |-> <<>>]
NotMade == [by |-> "none", payload |-> Undefined, tag |-> NoTag]
IdleTcf ==
  [pc |-> "idle", fin |-> FALSE, tagOk |-> NoTag, tagError |-> NoTag,
   tried |-> "none", value |-> Undefined, fault |-> Undefined,
   catch |-> "none", caught |-> Undefined, finally |-> "none",
   finret |-> Undefined, comp |-> "none", inst |-> NoInst, thrown |-> Undefined]
NoRes ==
  [impl |-> "none", value |-> Undefined, isError |-> "absent", tagOk |-> NoTag,
   tagError |-> NoTag, outcome |-> "none", inst |-> NoInst, thrown |-> Undefined,
   asked |-> <<>>]

Init ==
  /\ heap = [p \in PromiseIds |-> FreeCell]
  /\ reactions = [p \in PromiseIds |-> <<>>]
  /\ jobs = <<>>
  /\ inst = NoInst
  /\ made = NotMade
  /\ last = NoCall
  /\ tcf = IdleTcf
  /\ tcfLog = <<>>
  /\ res = NoRes

\* ------------------------------------------------------------------ promises
FreeIds == {p \in PromiseIds : heap[p].state = "free"}
NextFree == CHOOSE p \in FreeIds : \A q \in FreeIds : p <= q
\* No callback of tcf is on the stack: tcf runs synchronously to completion.
Quiet == tcf.pc \in {"idle", "done"}

\* A new pending promise: the environment's (settled later by it), or the one
\* then() derives for a match or pair call; by is that call and the handler
\* its closure captured.
NewPromise(h, owner, by) ==
  [h EXCEPT ![NextFree] = [state |-> "pending", owner |-> owner,
                           val |-> Single(Undefined), by |-> by, invoked |-> <<>>]]

\* The value an input denotes: Fresh is the promise about to be allocated.
Denoted(v) == IF v = Fresh THEN PromiseRef(NextFree) ELSE v

\* The environment settles a promise it owns; its reactions become jobs.
Settle(p, st, v) ==
  /\ Quiet
  /\ heap[p].state = "pending"
  /\ heap[p].owner = "env"
  /\ heap' = [heap EXCEPT ![p] = [@ EXCEPT !.state = st, !.val = Single(v)]]
  /\ jobs' = jobs \o [k \in 1..Len(reactions[p]) |->
                        [closure |-> reactions[p][k], state |-> st, val |-> v]]
  /\ reactions' = [reactions EXCEPT ![p] = <<>>]
  /\ UNCHANGED <<inst, made, last, tcf, tcfLog, res>>

\* mutant: a second then() on the same payload is deduplicated away
ThenOnce(src, cl) ==
  IF heap[src].state = "pending"
  THEN /\ reactions' = [reactions EXCEPT ![src] = IF @ = <<>> THEN <<cl>> ELSE @]
       /\ jobs' = jobs
  ELSE /\ jobs' = IF jobs = <<>>
                  THEN <<[closure |-> cl, state |-> heap[src].state,
                          val |-> heap[src].val.fst]>>
                  ELSE jobs
       /\ reactions' = reactions
\* mutant: the closure is registered twice on the payload
ThenTwice(src, cl) ==
  IF heap[src].state = "pending"
  THEN /\ reactions' = [reactions EXCEPT ![src] = @ \o <<cl, cl>>]
       /\ jobs' = jobs
  ELSE /\ jobs' = jobs \o <<[closure |-> cl, state |-> heap[src].state,
                              val |-> heap[src].val.fst],
                             [closure |-> cl, state |-> heap[src].state,
                              val |-> heap[src].val.fst]>>
       /\ reactions' = reactions
\* promise.then(closure): queued at once when the promise has settled.
Then(src, cl) ==
  IF heap[src].state = "pending"
  THEN /\ reactions' = [reactions EXCEPT ![src] = Append(@, cl)]
       /\ jobs' = jobs
  ELSE /\ jobs' = Append(jobs, [closure |-> cl, state |-> heap[src].state,
                                val |-> heap[src].val.fst])
       /\ reactions' = reactions

\* ------------------------------------------------------------------ constructors
\* The caller builds one instance: no constructor has been invoked yet.
CanConstruct(v) ==
  /\ tcf.pc = "idle"
  /\ res.outcome = "none"
  /\ inst = NoInst
  /\ v = Fresh => FreeIds # {}

\* const r = ok(value, tag)
CallOk(v, tag) ==
  /\ CanConstruct(v)
  /\ inst' = ok(Denoted(v), tag)
  /\ made' = [by |-> "ok", payload |-> Denoted(v), tag |-> tag]
  /\ heap' = IF v = Fresh THEN NewPromise(heap, "env", NoThen) ELSE heap
  /\ UNCHANGED <<reactions, jobs, last, tcf, tcfLog, res>>

\* const r = err(error, tag)
CallErr(e, tag) ==
  /\ CanConstruct(e)
  /\ inst' = err(Denoted(e), tag)
  /\ made' = [by |-> "err", payload |-> Denoted(e), tag |-> tag]
  /\ heap' = IF e = Fresh THEN NewPromise(heap, "env", NoThen) ELSE heap
  /\ UNCHANGED <<reactions, jobs, last, tcf, tcfLog, res>>

\* ------------------------------------------------------------------ instance methods
\* mutant: a method run after the payload settled stores the settled value in
\* the instance
afterCallCaches(i) ==
  IF i.captured.kind = "promise" /\ heap[i.captured.id].state = "fulfilled"
  THEN IF i.methods = "ok" THEN [i EXCEPT !.value = heap[i.captured.id].val.fst]
       ELSE [i EXCEPT !.error = heap[i.captured.id].val.fst]
  ELSE i
\* The instance after one of its methods, or a closure one of them gave to
\* then(), has run: the bodies read the captured payload and assign nothing.
afterCall(i) == i
CanCall == Quiet /\ inst # NoInst

CallRec(op, onOk, onErr, ret, invoked) ==
  [op |-> op, onOk |-> onOk, onErr |-> onErr, ret |-> ret, invoked |-> invoked]

\* mutant: match calls both handlers with the payload
matchInvokesBoth(who, arg) == <<[who |-> "onOk", arg |-> arg], [who |-> "onErr", arg |-> arg]>>
\* The handler calls one run of a match body makes: ok(value) / ok(v) calls
\* the variant's handler once.
matchInvokes(who, arg) == <<[who |-> who, arg |-> arg]>>

\* match of either variant: hd is the handler that variant invokes.
MatchWith(fn, hd, onOk, onErr) ==
  LET payload == inst.captured
  IN  IF IsPromise(payload)
      THEN /\ FreeIds # {}
           /\ heap' = NewPromise(heap, "then", [op |-> "match", who |-> hd.who, h |-> hd.h])
           /\ Then(payload.id, [fn |-> fn, who |-> hd.who, h |-> hd.h, dst |-> NextFree])
           /\ last' = last
      ELSE /\ last' = CallRec("match", onOk, onErr, Single(Apply(hd.h, payload)),
                              matchInvokes(hd.who, payload))
           /\ UNCHANGED <<heap, reactions, jobs>>

ok_match(onOk, onErr) ==
  /\ CanCall
  /\ inst.methods = "ok"
  /\ MatchWith("ok.match", okMatchHandler(onOk, onErr), onOk, onErr)
  /\ inst' = afterCall(inst)
  /\ UNCHANGED <<made, tcf, tcfLog, res>>

err_match(onOk, onErr) ==
  /\ CanCall
  /\ inst.methods = "err"
  /\ MatchWith("err.match", errMatchHandler(onOk, onErr), onOk, onErr)
  /\ inst' = afterCall(inst)
  /\ UNCHANGED <<made, tcf, tcfLog, res>>

\* pair of either variant: fn names the closure that builds the array.
PairWith(fn) ==
  LET payload == inst.captured
  IN  IF IsPromise(payload)
      THEN /\ FreeIds # {}
           /\ heap' = NewPromise(heap, "then", [op |-> "pair", who |-> "-", h |-> "-"])
           /\ Then(payload.id, [fn |-> fn, who |-> "-", h |-> "-", dst |-> NextFree])
           /\ last' = last
      ELSE /\ last' = CallRec("pair", "-", "-", pairOf(inst, payload), <<>>)
           /\ UNCHANGED <<heap, reactions, jobs>>

ok_pair ==
  /\ CanCall
  /\ inst.methods = "ok"
  /\ PairWith("ok.pair")
  /\ inst' = afterCall(inst)
  /\ UNCHANGED <<made, tcf, tcfLog, res>>

err_pair ==
  /\ CanCall
  /\ inst.methods = "err"
  /\ PairWith("err.pair")
  /\ inst' = afterCall(inst)
  /\ UNCHANGED <<made, tcf, tcfLog, res>>

CallUnwrap ==
  /\ CanCall
  /\ last' = CallRec("unwrap", "-", "-", Single(unwrap(inst)), <<>>)
  /\ inst' = afterCall(inst)
  /\ UNCHANGED <<heap, reactions, jobs, made, tcf, tcfLog, res>>

CallIsOk ==
  /\ CanCall
  /\ last' = CallRec("isOk", "-", "-", Single(Bool(isOk(inst))), <<>>)
  /\ inst' = afterCall(inst)
  /\ UNCHANGED <<heap, reactions, jobs, made, tcf, tcfLog, res>>

CallIsErr ==
  /\ CanCall
  /\ last' = CallRec("isErr", "-", "-", Single(Bool(isErr(inst))), <<>>)
  /\ inst' = afterCall(inst)
  /\ UNCHANGED <<heap, reactions, jobs, made, tcf, tcfLog, res>>

\* mutant: the closure is also given to then() as the rejection handler
thenRejectedHandled(cell, cl, reason) ==
  IF cl.fn \in {"ok.match", "err.match"}
  THEN [cell EXCEPT !.state = "fulfilled", !.val = Single(Apply(cl.h, reason)),
                    !.invoked = @ \o <<[who |-> cl.who, arg |-> reason]>>]
  ELSE [cell EXCEPT !.state = "rejected", !.val = Single(reason)]
\* The promise then(closure) derived, when the payload rejects: then() was
\* given no rejection handler, so the closure is skipped and the derived
\* promise rejects with the same reason.
thenRejected(cell, cl, reason) == [cell EXCEPT !.state = "rejected", !.val = Single(reason)]

\* The host runs the first microtask: the closure given to then(), called with
\* the fulfilment value; a rejection passes to the derived promise unhandled.
RunJob ==
  /\ Quiet
  /\ jobs # <<>>
  /\ LET j == Head(jobs)
         cl == j.closure
     IN  /\ jobs' = Tail(jobs)
         /\ heap' = [heap EXCEPT ![cl.dst] =
              IF j.state = "rejected"
              THEN thenRejected(@, cl, j.val)
              ELSE IF cl.fn \in {"ok.match", "err.match"}
              THEN [@ EXCEPT !.state = "fulfilled", !.val = Single(Apply(cl.h, j.val)),
                             !.invoked = @ \o matchInvokes(cl.who, j.val)]
              ELSE [@ EXCEPT !.state = "fulfilled",
                             !.val = IF cl.fn = "ok.pair" THEN okPairOf(j.val)
                                     ELSE errPairOf(j.val)]]
  /\ inst' = afterCall(inst)
  /\ UNCHANGED <<reactions, made, last, tcf, tcfLog, res>>

\* ------------------------------------------------------------------ tcf
\* mutant: the try block treats a returned promise as a failure
tcfTryReturnPromiseAsErr(v, tagOk) ==
  IF v.kind = "promise" THEN err(v, NoTag) ELSE IF tagOk = NoTag THEN ok(v, NoTag) ELSE ok(v, tagOk)
\* mutant: the try block drops tagOk
tcfTryReturnUntagged(v, tagOk) == ok(v, NoTag)
\* The try block's return statement: ok(tryFn()) or ok(tryFn(), tagOk).
tcfTryReturn(v, tagOk) == IF tagOk = NoTag THEN ok(v, NoTag) ELSE ok(v, tagOk)
\* mutant: the catch block tests tagError for truthiness
tcfCatchReturnTruthy(c, tagError) == IF Truthy(tagError) THEN err(c, tagError) ELSE err(c, NoTag)
\* The catch block's return statement: err(catchFn(error)) or
\* err(catchFn(error), tagError).
tcfCatchReturn(c, tagError) == IF tagError = NoTag THEN err(c, NoTag) ELSE err(c, tagError)
\* The argument the catch block hands to catchFn.
tcfCatchArg(fault) == fault
\* mutant: finallyFn is called at the end of the catch block only
tcfRunsFinallyAfterCatch(fin) == fin /\ tcf.tried = "threw"
\* mutant: the finally block is left out
tcfRunsFinallyNever(fin) == FALSE
\* Whether the finally block invokes finallyFn: finallyFn?.()
tcfRunsFinally(fin) == fin
\* mutant: a throw of finallyFn is swallowed
tcfCompletionSwallows(pending, finallyThrew) == pending
\* How tcf completes after the finally block: a throw of finallyFn replaces the
\* completion the try or catch block left pending.
tcfCompletion(pending, finallyThrew) == IF finallyThrew THEN "throw" ELSE pending
tcfThrown(pending, finallyThrew) == IF finallyThrew THEN FinallyFault ELSE pending

\* What tryFn does when invoked: returns a value or throws a fault.
TryOutcomes ==
  [kind : {"return"}, val : Resolved \cup {Fresh}] \cup [kind : {"throw"}, val : ErrorVals]
\* What catchFn returns for the fault it is given, when it returns.
CatchResult(b, f) ==
  IF b = "wrap" THEN HandledError(f)
  ELSE IF b = "same" THEN f
  ELSE PromiseRef(NextFree)

\* tcf({ try, catch, finally, tagOk, tagError }) is entered.
TcfCall(fin, tagOk, tagError) ==
  /\ CanConstruct(Fresh)
  /\ tcf' = [IdleTcf EXCEPT !.pc = "try", !.fin = fin, !.tagOk = tagOk,
                            !.tagError = tagError]
  /\ UNCHANGED <<heap, reactions, jobs, inst, made, last, tcfLog, res>>

\* The try block: tryFn() returns, and the completion is return ok(...), or it
\* throws and control passes to the catch block.
TcfTry(o) ==
  /\ tcf.pc = "try"
  /\ tcfLog' = Append(tcfLog, [fn |-> "try", arg |-> Undefined])
  /\ IF o.kind = "return"
     THEN /\ tcf' = [tcf EXCEPT !.pc = "finally", !.tried = "returned",
                                !.value = Denoted(o.val), !.comp = "return",
                                !.inst = tcfTryReturn(Denoted(o.val), tcf.tagOk)]
          /\ heap' = IF o.val = Fresh THEN NewPromise(heap, "env", NoThen) ELSE heap
     ELSE /\ tcf' = [tcf EXCEPT !.pc = "catch", !.tried = "threw", !.fault = o.val]
          /\ heap' = heap
  /\ UNCHANGED <<reactions, jobs, inst, made, last, res>>

\* The catch block: catchFn(error) returns, and the completion is return
\* err(...), or it throws and the completion is that throw.
TcfCatch(b) ==
  /\ tcf.pc = "catch"
  /\ tcfLog' = Append(tcfLog, [fn |-> "catch", arg |-> tcfCatchArg(tcf.fault)])
  /\ IF b = "throw"
     THEN /\ tcf' = [tcf EXCEPT !.pc = "finally", !.catch = "threw", !.comp = "throw",
                                !.thrown = CatchFault]
          /\ heap' = heap
     ELSE /\ tcf' = [tcf EXCEPT !.pc = "finally", !.catch = "returned", !.comp = "return",
                                !.caught = CatchResult(b, tcfCatchArg(tcf.fault)),
                                !.inst = tcfCatchReturn(
                                           CatchResult(b, tcfCatchArg(tcf.fault)),
                                           tcf.tagError)]
          /\ heap' = IF b = "async" THEN NewPromise(heap, "env", NoThen) ELSE heap
  /\ UNCHANGED <<reactions, jobs, inst, made, last, res>>

\* What finallyFn returns when it returns: nothing, or some value.
FinallyReturns == {Undefined, Plain(0)}
\* mutant: the finally block returns what finallyFn returned, wrapped
tcfResultFromFinally(built, finallyReturned) ==
  IF finallyReturned = Undefined THEN built ELSE ok(finallyReturned, NoTag)
\* The instance tcf returns after a finally block that did not throw:
\* finallyFn?.() is an expression statement, its value is dropped.
tcfResult(built, finallyReturned) == built

\* The finally block, then the completion of tcf: the pending return or throw
\* takes effect unless finallyFn itself throws.
TcfFinally(throws, r) ==
  /\ tcf.pc = "finally"
  /\ throws => tcfRunsFinally(tcf.fin)
  /\ (throws \/ ~tcfRunsFinally(tcf.fin)) => r = Undefined
  /\ tcfLog' = IF tcfRunsFinally(tcf.fin)
               THEN Append(tcfLog, [fn |-> "finally", arg |-> Undefined])
               ELSE tcfLog
  /\ LET comp == tcfCompletion(tcf.comp, throws)
     IN  /\ tcf' = [tcf EXCEPT !.pc = "done",
                               !.finally = IF throws THEN "threw"
                                           ELSE IF tcfRunsFinally(tcf.fin) THEN "returned"
                                           ELSE "none",
                               !.finret = r,
                               !.comp = comp,
                               !.thrown = tcfThrown(tcf.thrown, throws),
                               !.inst = IF comp = "return" THEN tcfResult(tcf.inst, r)
                                        ELSE NoInst]
         /\ inst' = IF comp = "return" THEN tcfResult(tcf.inst, r) ELSE inst
  /\ UNCHANGED <<heap, reactions, jobs, made, last, res>>

\* ------------------------------------------------------------------ result
\* value instanceof Error
\* mutant: the default predicate also counts a pending value as an error
defaultIsErrorOrPromise(v) == v.kind \in {"error", "promise"}
defaultIsError(v) == InstanceofError(v)
\* mutant: config.isError is ignored
isErrorOfDefaultOnly(pred, v) == defaultIsError(v)
\* const isError = config?.isError ?? defaultIsError, applied to the value
isErrorOf(pred, v) == IF pred = "absent" THEN defaultIsError(v) ELSE PredicateSays(pred, v)

\* result of src/return/result.ts (processValue)
result(v, pred, tagOk, tagError) ==
  IF isErrorOf(pred, v)
  THEN IF Truthy(tagError) THEN err(v, tagError) ELSE err(v, NoTag)
  ELSE IF Truthy(tagOk) THEN ok(v, tagOk) ELSE ok(v, NoTag)

\* result as defined after tcf in src/return/tcf.ts
resultTcf(v, pred, tagOk, tagError) ==
  IF isErrorOf(pred, v)
  THEN err(v, Nullish(tagError, DEFAULT_TAG_ERROR))
  ELSE ok(v, Nullish(tagOk, DEFAULT_TAG_OK))

\* The calls result makes to the predicate: if (isError(val)), once, with the
\* value it was given.
predicateCalls(v) == <<v>>
\* mutant: result wraps the predicate call in a try/catch and goes on
resultCompletionCatches(predicateThrew) == "return"
\* How result completes: processValue calls isError outside any handler, so a
\* throw of the predicate is the completion of result.
resultCompletion(predicateThrew) == IF predicateThrew THEN "throw" ELSE "return"

\* const r = result(value, { isError, tagOk, tagError })
CallResult(impl, v, pred, tagOk, tagError) ==
  /\ CanConstruct(v)
  /\ LET value == Denoted(v)
         built == IF impl = "result.ts" THEN result(value, pred, tagOk, tagError)
                  ELSE resultTcf(value, pred, tagOk, tagError)
     IN  IF resultCompletion(pred = "throws") = "throw"
         THEN /\ res' = [NoRes EXCEPT !.impl = impl, !.value = value, !.isError = pred,
                                      !.tagOk = tagOk, !.tagError = tagError,
                                      !.outcome = "threw", !.thrown = PredicateFault,
                                      !.asked = predicateCalls(value)]
              /\ inst' = inst
         ELSE /\ res' = [NoRes EXCEPT !.impl = impl, !.value = value, !.isError = pred,
                                      !.tagOk = tagOk, !.tagError = tagError,
                                      !.outcome = "returned", !.inst = built,
                                      !.asked = predicateCalls(value)]
              /\ inst' = built
  /\ heap' = IF v = Fresh THEN NewPromise(heap, "env", NoThen) ELSE heap
  /\ UNCHANGED <<reactions, jobs, made, last, tcf, tcfLog>>

\* ------------------------------------------------------------------ specification
Next ==
  \/ \E v \in Resolved \cup {Fresh}, tag \in TagArgs : CallOk(v, tag)
  \/ \E e \in Resolved \cup {Fresh}, tag \in TagArgs : CallErr(e, tag)
  \/ \E f \in Handlers, g \in Handlers : ok_match(f, g)
  \/ \E f \in Handlers, g \in Handlers : err_match(f, g)
  \/ ok_pair
  \/ err_pair
  \/ CallUnwrap
  \/ CallIsOk
  \/ CallIsErr
  \/ \E p \in PromiseIds, o \in SettleOutcomes : Settle(p, o.state, o.val)
  \/ RunJob
  \/ \E fin \in BOOLEAN, tagOk \in TagArgs, tagError \in TagArgs : TcfCall(fin, tagOk, tagError)
  \/ \E o \in TryOutcomes : TcfTry(o)
  \/ \E b \in CatchBehaviours : TcfCatch(b)
  \/ \E throws \in BOOLEAN, r \in FinallyReturns : TcfFinally(throws, r)
  \/ \E impl \in ResultImpls, v \in Resolved \cup {Fresh}, pred \in Predicates,
        tagOk \in TagArgs, tagError \in TagArgs : CallResult(impl, v, pred, tagOk, tagError)

Spec == Init /\ [][Next]_vars

\* ------------------------------------------------------------------ properties
\* The promises then() derived for match and for pair calls.
Derived(op) == {p \in PromiseIds : heap[p].owner = "then" /\ heap[p].by.op = op}
Pending(v) == v.kind = "promise"
\* The value the payload promise was fulfilled with.
Settled(v) == heap[v.id].val.fst
\* A derived promise that is still pending has its closure waiting on the
\* payload or queued as a microtask: it is never dropped.
Waiting(p) ==
  \/ \E q \in PromiseIds : \E k \in 1..Len(reactions[q]) : reactions[q][k].dst = p
  \/ \E k \in 1..Len(jobs) : jobs[k].closure.dst = p
OwnHandler == IF inst.methods = "ok" THEN "onOk" ELSE "onErr"
Invocations(fn) == {k \in 1..Len(tcfLog) : tcfLog[k].fn = fn}

\* C1: ok(v).match(f, g) returns f(v) and invokes only f, with v; err(e).match(f, g)
\* returns g(e) and invokes only g, with e. The handler of the other variant is
\* never invoked, also not by the closure a pending payload defers the call to.
C1_MatchCallsOwnHandler ==
  /\ last.op = "match" =>
       /\ last.ret = Single(Apply(IF inst.methods = "ok" THEN last.onOk ELSE last.onErr,
                                  inst.captured))
       /\ last.invoked = <<[who |-> OwnHandler, arg |-> inst.captured]>>
  /\ \A p \in Derived("match") :
       \A k \in 1..Len(heap[p].invoked) : heap[p].invoked[k].who = OwnHandler
C1_Witness ==
  /\ inst.methods = "ok"
  /\ last.op = "match"
  /\ last.onOk # last.onErr
  /\ last.ret # Single(Apply(last.onErr, inst.captured))

\* C2: match on a resolved payload returns the handler's output itself, never a
\* promise; match on a pending payload returns a derived promise that stays
\* pending until the payload is fulfilled and is then fulfilled with the
\* handler's output on the payload's value. Both variants.
C2_MatchKeepsSyncOrPending ==
  /\ last.op = "match" =>
       /\ ~Pending(inst.captured)
       /\ ~Pending(last.ret.fst)
       /\ last.ret = Single(Apply(IF inst.methods = "ok" THEN last.onOk ELSE last.onErr,
                                  inst.captured))
  /\ \A p \in Derived("match") :
       /\ Pending(inst.captured)
       /\ heap[p].state = "pending" => Waiting(p)
       /\ heap[p].state = "fulfilled" =>
            /\ heap[inst.captured.id].state = "fulfilled"
            /\ heap[p].by.who = OwnHandler
            /\ heap[p].val = Single(Apply(heap[p].by.h, Settled(inst.captured)))
C2_Witness ==
  /\ inst.methods = "err"
  /\ \E p \in Derived("match") :
       /\ heap[p].state = "fulfilled"
       /\ heap[p].by.h = "flip"
       /\ heap[p].val # Single(Settled(inst.captured))

\* C3: when try raised fault F, catch has been invoked exactly once, with F; and
\* when catch returned c (and finally, if any, did not raise) tcf returned the
\* Err instance whose payload is c and whose tag is tagError, "Err" when absent.
C3_TcfCatchPath ==
  (tcf.pc = "done" /\ tcf.tried = "threw") =>
    /\ Cardinality(Invocations("catch")) = 1
    /\ \A k \in Invocations("catch") : tcfLog[k].arg = tcf.fault
    /\ (tcf.catch = "returned" /\ tcf.finally # "threw") =>
         /\ tcf.comp = "return"
         /\ inst # NoInst
         /\ inst.methods = "err"
         /\ inst.error = tcf.caught
         /\ inst.captured = tcf.caught
         /\ inst.value = Missing
         /\ inst.tag = IF tcf.tagError = NoTag THEN "Err" ELSE tcf.tagError
C3_Witness ==
  /\ tcf.pc = "done"
  /\ tcf.tried = "threw"
  /\ tcf.catch = "returned"
  /\ tcf.caught # tcf.fault
  /\ tcf.tagError = ""
  /\ inst.methods = "err"

\* C4: when finally is supplied it is invoked exactly once per tcf invocation,
\* as the last callback, after try (and catch, when try raised) has finished,
\* whether try returned or raised and also when catch raised; it is never
\* invoked while try or catch is still to run.
C4_FinallyOnceAtEnd ==
  /\ \A k \in Invocations("finally") : k = Len(tcfLog) /\ tcf.pc = "done"
  /\ (tcf.pc = "done" /\ tcf.fin) =>
       /\ Cardinality(Invocations("finally")) = 1
       /\ Cardinality(Invocations("try")) = 1
       /\ tcf.tried = "threw" => Cardinality(Invocations("catch")) = 1
C4_Witness ==
  /\ tcf.pc = "done"
  /\ tcf.fin
  /\ tcf.catch = "threw"
  /\ Cardinality(Invocations("finally")) = 1

\* C5: when try returned v, try has been invoked exactly once and catch never;
\* and (finally, if any, not raising) tcf returned the Ok instance whose payload
\* is v and whose tag is tagOk, "Ok" when absent, whatever tagError is.
C5_TcfTryPath ==
  (tcf.pc = "done" /\ tcf.tried = "returned") =>
    /\ Cardinality(Invocations("try")) = 1
    /\ Invocations("catch") = {}
    /\ tcf.finally # "threw" =>
         /\ tcf.comp = "return"
         /\ inst # NoInst
         /\ inst.methods = "ok"
         /\ inst.value = tcf.value
         /\ inst.captured = tcf.value
         /\ inst.error = Missing
         /\ inst.tag = IF tcf.tagOk = NoTag THEN "Ok" ELSE tcf.tagOk
C5_Witness ==
  /\ tcf.pc = "done"
  /\ tcf.tried = "returned"
  /\ tcf.tagOk = ""
  /\ tcf.tagError = "T"
  /\ inst.methods = "ok"
  /\ inst.tag = ""

\* C6 as claimed: tcf never raises a fault to its caller; whatever try, catch
\* and finally do, it returns a Result instance.
C6_TcfNeverRaises ==
  tcf.pc = "done" => (tcf.comp = "return" /\ inst # NoInst)

\* C6 as amended: tcf never raises the fault try raised (it goes to catch, and
\* tcf returns an Err instance when catch and finally return); tcf raises a
\* fault to its caller exactly when catch or finally itself raises, and then
\* the fault of finally if finally raised, otherwise the fault of catch.
C6_TcfRaisesOnlyCallbackFaults ==
  tcf.pc = "done" =>
    /\ (tcf.comp = "throw") = (tcf.catch = "threw" \/ tcf.finally = "threw")
    /\ tcf.comp = "throw" =>
         /\ inst = NoInst
         /\ tcf.thrown = IF tcf.finally = "threw" THEN FinallyFault ELSE CatchFault
    /\ tcf.comp = "return" =>
         /\ inst # NoInst
         /\ inst.methods = IF tcf.tried = "threw" THEN "err" ELSE "ok"
C6_Witness ==
  /\ tcf.pc = "done"
  /\ tcf.tried = "threw"
  /\ tcf.catch = "returned"
  /\ tcf.finally = "threw"
  /\ tcf.comp = "throw"

\* C7: result(v, config) returns an Err instance wrapping v exactly when the
\* effective predicate is true of v, and an Ok instance wrapping v otherwise;
\* the effective predicate is config.isError when supplied, and v instanceof
\* Error when not.
C7_ResultFollowsPredicate ==
  res.outcome = "returned" =>
    LET isError == IF res.isError = "absent" THEN res.value.kind = "error"
                   ELSE PredicateSays(res.isError, res.value)
    IN  /\ inst # NoInst
        /\ inst.methods = IF isError THEN "err" ELSE "ok"
        /\ inst.captured = res.value
        /\ inst.error = IF isError THEN res.value ELSE Missing
        /\ inst.value = IF isError THEN Missing ELSE res.value
C7_Witness ==
  /\ res.outcome = "returned"
  /\ res.isError = "never"
  /\ res.value.kind = "error"
  /\ inst.methods = "ok"

\* C8 as claimed: the tag of the instance result returns is tagError ?? "Err"
\* for a value classified as an error and tagOk ?? "Ok" otherwise, for every
\* supplied tag string, the empty string included.
C8_ResultTag ==
  res.outcome = "returned" =>
    inst.tag = IF inst.methods = "err"
               THEN (IF res.tagError = NoTag THEN "Err" ELSE res.tagError)
               ELSE (IF res.tagOk = NoTag THEN "Ok" ELSE res.tagOk)

\* C9: on every instance isErr() is the complement of isOk(); an instance built
\* by ok answers isOk() true and isErr() false, one built by err the reverse,
\* and so do the Ok and Err instances tcf and result return.
C9_IsErrComplementsIsOk ==
  /\ inst # NoInst =>
       /\ isOk(inst) = ~isErr(inst)
       /\ isOk(inst) = (inst.value # Missing)
       /\ isErr(inst) = (inst.error # Missing)
  /\ made.by = "ok" => (isOk(inst) /\ ~isErr(inst))
  /\ made.by = "err" => (~isOk(inst) /\ isErr(inst))
  /\ last.op = "isOk" => last.ret = Single(Bool(inst.value # Missing))
  /\ last.op = "isErr" => last.ret = Single(Bool(inst.error # Missing))
C9_Witness ==
  /\ made.by = "err"
  /\ last.op = "isOk"
  /\ last.ret = Single(Bool(FALSE))

\* C10: pair() on a resolved payload returns (v, undefined) for ok(v) and
\* (undefined, e) for err(e); on a pending payload it returns a derived promise
\* that is fulfilled with that tuple, holding the payload's value, once the
\* payload is fulfilled.
C10_PairTuple ==
  /\ last.op = "pair" =>
       /\ ~Pending(inst.captured)
       /\ last.ret = IF inst.methods = "ok" THEN Tuple(inst.captured, Undefined)
                     ELSE Tuple(Undefined, inst.captured)
  /\ \A p \in Derived("pair") :
       /\ Pending(inst.captured)
       /\ heap[p].state = "pending" => Waiting(p)
       /\ heap[p].state = "fulfilled" =>
            /\ heap[inst.captured.id].state = "fulfilled"
            /\ heap[p].val = IF inst.methods = "ok"
                             THEN Tuple(Settled(inst.captured), Undefined)
                             ELSE Tuple(Undefined, Settled(inst.captured))
C10_Witness ==
  /\ inst.methods = "err"
  /\ \E p \in Derived("pair") :
       /\ heap[p].state = "fulfilled"
       /\ heap[p].val = Tuple(Undefined, Settled(inst.captured))

\* A slot of a pair tuple is populated when it holds anything but undefined.
Populated(x) == x # Undefined
PopulatedSlots(t) == {s \in {"fst", "snd"} : Populated(t[s])}

\* C11 (as stated): every tuple produced by pair(), returned at once or
\* delivered through the derived promise, has exactly one populated slot.
C11_PairExactlyOneSlot ==
  /\ last.op = "pair" => Cardinality(PopulatedSlots(last.ret)) = 1
  /\ \A p \in Derived("pair") :
       heap[p].state = "fulfilled" => Cardinality(PopulatedSlots(heap[p].val)) = 1
\* C11 (amended): the slot of the other variant is always undefined, so the two
\* slots are never both populated; the slot of the instance's own variant holds
\* the payload, so it is populated exactly when the payload is not undefined:
\* ok(undefined).pair() is (undefined, undefined).
C11_PairAtMostOneSlot ==
  /\ last.op = "pair" =>
       /\ Cardinality(PopulatedSlots(last.ret)) <= 1
       /\ Populated(last.ret[IF inst.methods = "ok" THEN "snd" ELSE "fst"]) = FALSE
       /\ (Cardinality(PopulatedSlots(last.ret)) = 1) = Populated(inst.captured)
  /\ \A p \in Derived("pair") :
       heap[p].state = "fulfilled" =>
         /\ Cardinality(PopulatedSlots(heap[p].val)) <= 1
         /\ Populated(heap[p].val[IF inst.methods = "ok" THEN "snd" ELSE "fst"]) = FALSE
         /\ (Cardinality(PopulatedSlots(heap[p].val)) = 1)
              = Populated(Settled(inst.captured))
C11_Witness ==
  /\ inst.methods = "ok"
  /\ inst.value = Undefined
  /\ last.op = "pair"
  /\ last.ret = Tuple(Undefined, Undefined)

\* C12: unwrap() returns the payload the instance holds, whatever it is: the
\* value given to ok, the error given to err, and for a pending payload the
\* same promise handle, not its settled value; it calls no handler and creates
\* no promise of its own.
C12_UnwrapIsIdentity ==
  last.op = "unwrap" =>
    /\ last.ret = Single(IF inst.methods = "ok" THEN inst.value ELSE inst.error)
    /\ made.by \in {"ok", "err"} => last.ret = Single(made.payload)
    /\ last.invoked = <<>>
    /\ Pending(IF inst.methods = "ok" THEN inst.value ELSE inst.error) =>
         /\ Pending(last.ret.fst)
         /\ heap[last.ret.fst.id].owner = "env"
C12_Witness ==
  /\ last.op = "unwrap"
  /\ inst.methods = "err"
  /\ Pending(inst.error)
  /\ heap[inst.error.id].state = "fulfilled"
  /\ last.ret = Single(inst.error)

\* C13 (as stated): every match call, once its result is available (returned,
\* or the promise it returned has settled), has made exactly one handler
\* invocation.
C13_MatchInvokesExactlyOnce ==
  /\ last.op = "match" => Len(last.invoked) = 1
  /\ \A p \in Derived("match") :
       heap[p].state # "pending" => Len(heap[p].invoked) = 1
\* C13 (amended): a match call never makes two handler invocations and never
\* calls the other variant's handler. On a resolved payload it makes exactly
\* one, before returning. On a pending payload it makes none while the payload
\* is pending, exactly one when the payload is fulfilled, and none at all when
\* the payload rejects: the rejection passes to the promise match returned.
C13_MatchInvokesAtMostOnce ==
  /\ last.op = "match" =>
       /\ Len(last.invoked) = 1
       /\ last.invoked[1].who = OwnHandler
  /\ \A p \in Derived("match") :
       /\ Len(heap[p].invoked) <= 1
       /\ \A k \in 1..Len(heap[p].invoked) : heap[p].invoked[k].who = OwnHandler
       /\ (Len(heap[p].invoked) = 1) = (heap[p].state = "fulfilled")
       /\ heap[p].state = "rejected" =>
            /\ heap[inst.captured.id].state = "rejected"
            /\ heap[p].val = heap[inst.captured.id].val
C13_Witness ==
  /\ inst.methods = "err"
  /\ \E p \in Derived("match") :
       /\ heap[p].state = "rejected"
       /\ heap[p].invoked = <<>>

\* C14: an instance built by ok or err without a tag carries the tag "Ok" or
\* "Err"; built with a tag it carries exactly that string, the empty string
\* included.
C14_TagDefaultOrSupplied ==
  /\ made.by = "ok" =>
       inst.tag = IF made.tag = NoTag THEN "Ok" ELSE made.tag
  /\ made.by = "err" =>
       inst.tag = IF made.tag = NoTag THEN "Err" ELSE made.tag
C14_Witness ==
  /\ made.by = "err"
  /\ made.tag = ""
  /\ inst.tag = ""

\* The instance of the same variant and payload as i, built with tag argument t.
Twin(i, t) == IF i.methods = "ok" THEN ok(i.captured, t) ELSE err(i.captured, t)
\* The handler match of instance i invokes.
HandlerOf(i, onOk, onErr) ==
  IF i.methods = "ok" THEN okMatchHandler(onOk, onErr) ELSE errMatchHandler(onOk, onErr)

\* C15: an instance and any instance of the same variant and payload built
\* with another tag (or none) differ in the tag field only, and isOk, isErr,
\* unwrap, pair and match give the same result on both: every result the
\* instance has produced is the one its differently tagged twin produces.
C15_TagIsInert ==
  inst # NoInst =>
    \A t \in TagArgs :
      LET twin == Twin(inst, t)
      IN  /\ [twin EXCEPT !.tag = inst.tag] = inst
          /\ twin.value = inst.value /\ twin.error = inst.error
          /\ isOk(twin) = isOk(inst)
          /\ isErr(twin) = isErr(inst)
          /\ unwrap(twin) = unwrap(inst)
          /\ \A v \in Resolved : pairOf(twin, v) = pairOf(inst, v)
          /\ \A onOk \in Handlers, onErr \in Handlers :
               HandlerOf(twin, onOk, onErr) = HandlerOf(inst, onOk, onErr)
          /\ last.op = "isOk" => last.ret = Single(Bool(isOk(twin)))
          /\ last.op = "isErr" => last.ret = Single(Bool(isErr(twin)))
          /\ last.op = "unwrap" => last.ret = Single(unwrap(twin))
          /\ last.op = "pair" => last.ret = pairOf(twin, twin.captured)
          /\ last.op = "match" =>
               LET hd == HandlerOf(twin, last.onOk, last.onErr)
               IN  /\ last.ret = Single(Apply(hd.h, twin.captured))
                   /\ last.invoked = <<[who |-> hd.who, arg |-> twin.captured]>>
          /\ \A p \in Derived("match") :
               \E onOk \in Handlers, onErr \in Handlers :
                 LET hd == HandlerOf(twin, onOk, onErr)
                 IN  heap[p].by = [op |-> "match", who |-> hd.who, h |-> hd.h]
C15_Witness ==
  /\ inst.methods = "ok"
  /\ inst.tag = "T"
  /\ Twin(inst, NoTag).tag = "Ok"
  /\ last.op = "isOk"
  /\ last.ret = Single(Bool(TRUE))

\* C16: when try throws and catch returns a promise, tcf attaches nothing to
\* that promise and completes while it is still pending; the instance it
\* returns is an Err whose error field is that very promise. match and pair on
\* it return promises only; once the promise is fulfilled, match's promise is
\* fulfilled with onErr's output on the settled error and pair's with
\* (undefined, settled error).
C16_AsyncCatchNotAwaited ==
  (tcf.catch = "returned" /\ Pending(tcf.caught)) =>
    /\ tcf.tried = "threw"
    /\ heap[tcf.caught.id].owner = "env"
    /\ tcf.pc = "finally" =>
         /\ heap[tcf.caught.id].state = "pending"
         /\ reactions[tcf.caught.id] = <<>>
         /\ jobs = <<>>
    /\ (tcf.pc = "done" /\ tcf.comp = "return") =>
         /\ inst.methods = "err"
         /\ inst.error = tcf.caught
         /\ inst.value = Missing
         /\ last.op \notin {"match", "pair"}
         /\ \A p \in Derived("match") :
              /\ heap[p].by.who = "onErr"
              /\ heap[p].state = "fulfilled" =>
                   /\ heap[tcf.caught.id].state = "fulfilled"
                   /\ heap[p].val = Single(Apply(heap[p].by.h, Settled(tcf.caught)))
                   /\ heap[p].invoked = <<[who |-> "onErr", arg |-> Settled(tcf.caught)]>>
         /\ \A p \in Derived("pair") :
              heap[p].state = "fulfilled" =>
                /\ heap[tcf.caught.id].state = "fulfilled"
                /\ heap[p].val = Tuple(Undefined, Settled(tcf.caught))
C16_Witness ==
  /\ tcf.pc = "done"
  /\ tcf.catch = "returned"
  /\ Pending(tcf.caught)
  /\ inst.error = tcf.caught
  /\ \E p \in Derived("match") :
       /\ heap[p].state = "fulfilled"
       /\ heap[p].by.h = "flip"
       /\ heap[p].val = Single(Apply("flip", Settled(tcf.caught)))

\* C17: when try returns a promise, catch is not invoked, then or later, and
\* tcf returns an Ok whose value field is that promise; when the promise
\* rejects the instance is still that Ok, and the rejection shows only in the
\* promises match and pair returned, which reject with the same reason without
\* any handler having been called.
C17_RejectedTryStaysOk ==
  (tcf.tried = "returned" /\ Pending(tcf.value)) =>
    /\ Invocations("catch") = {}
    /\ tcf.catch = "none"
    /\ (tcf.pc = "done" /\ tcf.comp = "return") =>
         /\ inst.methods = "ok"
         /\ inst.value = tcf.value
         /\ inst.error = Missing
         /\ heap[tcf.value.id].state = "rejected" =>
              \A p \in Derived("match") \cup Derived("pair") :
                heap[p].state # "pending" =>
                  /\ heap[p].state = "rejected"
                  /\ heap[p].val = heap[tcf.value.id].val
                  /\ heap[p].invoked = <<>>
C17_Witness ==
  /\ tcf.pc = "done"
  /\ tcf.tried = "returned"
  /\ Pending(tcf.value)
  /\ heap[tcf.value.id].state = "rejected"
  /\ inst.methods = "ok"
  /\ inst.value = tcf.value
  /\ \E p \in Derived("match") : heap[p].state = "rejected"

\* C18: when the predicate given to result throws, result completes with that
\* throw: the caller receives the predicate's fault and no instance exists.
C18_PredicateFaultPropagates ==
  (res.impl # "none" /\ res.isError = "throws") =>
    /\ res.outcome = "threw"
    /\ res.thrown = PredicateFault
    /\ res.inst = NoInst
    /\ inst = NoInst
C18_Witness ==
  /\ res.impl = "result.ts"
  /\ res.isError = "throws"
  /\ res.outcome = "threw"
  /\ inst = NoInst

\* The payload field of an instance: value on Ok, error on Err.
PayloadField(i) == IF i.methods = "ok" THEN i.value ELSE i.error

\* C19: in every state after the constructor returned, whatever methods have
\* been called and however the payload has settled, the instance is the one
\* that was constructed: its tag and its payload field are those ok and err
\* were given, those tcf's try or catch block built, or those result built.
C19_InstanceImmutable ==
  inst # NoInst =>
    /\ inst.methods \in {"ok", "err"}
    /\ PayloadField(inst) = inst.captured
    /\ (IF inst.methods = "ok" THEN inst.error ELSE inst.value) = Missing
    /\ made.by \in {"ok", "err"} =>
         /\ inst.methods = made.by
         /\ PayloadField(inst) = made.payload
         /\ inst.tag = IF made.tag # NoTag THEN made.tag
                       ELSE IF made.by = "ok" THEN "Ok" ELSE "Err"
    /\ tcf.pc = "done" =>
         /\ inst = tcf.inst
         /\ PayloadField(inst) = IF tcf.tried = "returned" THEN tcf.value ELSE tcf.caught
         /\ inst.tag = IF tcf.tried = "returned"
                       THEN (IF tcf.tagOk = NoTag THEN "Ok" ELSE tcf.tagOk)
                       ELSE (IF tcf.tagError = NoTag THEN "Err" ELSE tcf.tagError)
    /\ res.outcome = "returned" =>
         /\ inst = res.inst
         /\ PayloadField(inst) = res.value
C19_Witness ==
  /\ made.by = "ok"
  /\ made.tag = "T"
  /\ Pending(made.payload)
  /\ heap[made.payload.id].state = "fulfilled"
  /\ \E p \in Derived("match") : heap[p].state = "fulfilled"
  /\ last.op = "unwrap"
  /\ inst.value = made.payload
  /\ inst.tag = "T"

\* The continuations, registered or queued, that will settle derived promise p.
ContinuationsFor(p) ==
  Cardinality({qk \in PromiseIds \X (1..MaxPromise) :
                 /\ qk[2] <= Len(reactions[qk[1]])
                 /\ reactions[qk[1]][qk[2]].dst = p})
    + Cardinality({k \in 1..Len(jobs) : jobs[k].closure.dst = p})

\* C20: continuations exist only on the instance's pending payload and only
\* for match and pair calls, one per call: every continuation belongs to the
\* promise one such call returned, each such promise has exactly one until it
\* settles, and with no such call made (after construction, isOk, isErr and
\* unwrap alone) nothing is attached or queued.
C20_OnlyMatchAndPairAttach ==
  /\ \A q \in PromiseIds :
       reactions[q] # <<>> =>
         /\ inst # NoInst
         /\ inst.captured = PromiseRef(q)
         /\ heap[q].state = "pending"
         /\ \A k \in 1..Len(reactions[q]) :
              reactions[q][k].dst \in Derived("match") \cup Derived("pair")
  /\ \A k \in 1..Len(jobs) :
       jobs[k].closure.dst \in Derived("match") \cup Derived("pair")
  /\ \A p \in Derived("match") \cup Derived("pair") :
       ContinuationsFor(p) = IF heap[p].state = "pending" THEN 1 ELSE 0
  /\ Derived("match") \cup Derived("pair") = {} =>
       /\ jobs = <<>>
       /\ \A q \in PromiseIds : reactions[q] = <<>>
  /\ tcf.pc \notin {"idle", "done"} =>
       /\ jobs = <<>>
       /\ \A q \in PromiseIds : reactions[q] = <<>>
C20_Witness ==
  /\ inst # NoInst
  /\ Pending(inst.captured)
  /\ heap[inst.captured.id].state = "pending"
  /\ last.op = "unwrap"
  /\ Cardinality(Derived("match")) = 1
  /\ Cardinality(Derived("pair")) = 1
  /\ Len(reactions[inst.captured.id]) = 2

\* The outcome of the match or pair call that returned promise p, once the
\* payload has been fulfilled: the handler the call captured, invoked once
\* with the settled payload, and its output (for pair, the tuple).
OutcomeOf(p) ==
  IF heap[p].by.op = "match"
  THEN [val |-> Single(Apply(heap[p].by.h, Settled(inst.captured))),
        invoked |-> <<[who |-> OwnHandler, arg |-> Settled(inst.captured)]>>]
  ELSE [val |-> IF inst.methods = "ok" THEN Tuple(Settled(inst.captured), Undefined)
                ELSE Tuple(Undefined, Settled(inst.captured)),
        invoked |-> <<>>]

\* Settled results are final and the instance is untouched: no step changes
\* the promise of a call that has settled, the call a promise belongs to, or
\* the instance.
CallsDoNotInterfere ==
  /\ inst # NoInst => inst' = inst
  /\ \A p \in Derived("match") \cup Derived("pair") :
       /\ heap'[p].by = heap[p].by
       /\ heap[p].state # "pending" => heap'[p] = heap[p]
\* What holds in every state of the calls made on a pending payload: each has
\* its own continuation while pending; when the payload is fulfilled each
\* call's result is its own handler's output on the one settled value, the
\* handler invoked once; when it rejects each result rejects with the reason
\* and no handler is invoked.
CallsAreIndependent ==
  \A p \in Derived("match") \cup Derived("pair") :
    /\ Pending(inst.captured)
    /\ heap[p].state = "pending" =>
         /\ ContinuationsFor(p) = 1
         /\ heap[p].invoked = <<>>
    /\ heap[p].state = "fulfilled" =>
         /\ heap[inst.captured.id].state = "fulfilled"
         /\ heap[p].val = OutcomeOf(p).val
         /\ heap[p].invoked = OutcomeOf(p).invoked
    /\ heap[p].state = "rejected" =>
         /\ heap[inst.captured.id].state = "rejected"
         /\ heap[p].val = heap[inst.captured.id].val
         /\ heap[p].invoked = <<>>
\* C21: any number of match and pair calls on one pending payload, made
\* before or after it settles, are independent: CallsAreIndependent holds in
\* every state and no step interferes with another call or the instance.
C21_CallsIndependent == []CallsAreIndependent /\ [][CallsDoNotInterfere]_vars
C21_Witness ==
  /\ Pending(inst.captured)
  /\ heap[inst.captured.id].state = "fulfilled"
  /\ \E p \in Derived("match"), q \in Derived("match") :
       /\ p # q
       /\ heap[p].by.h # heap[q].by.h
       /\ heap[p].state = "fulfilled" /\ heap[q].state = "fulfilled"
       /\ heap[p].val # heap[q].val
       /\ heap[p].invoked = heap[q].invoked

\* The instance ok or err builds when called directly with the payload and
\* the tag that tcf or result was given for the variant it produced.
Direct ==
  IF tcf.pc = "done"
  THEN IF tcf.tried = "returned" THEN ok(tcf.value, tcf.tagOk)
       ELSE err(tcf.caught, tcf.tagError)
  ELSE IF inst.methods = "ok" THEN ok(res.value, res.tagOk)
       ELSE err(res.value, res.tagError)

\* C22: the instance tcf or result returned is the instance ok or err builds
\* directly from the same payload and tag: same tag, same payload field, and
\* isOk, isErr, unwrap, pair and match give on it what they give on the
\* directly built one.
C22_SameAsDirect ==
  ((tcf.pc = "done" /\ tcf.comp = "return") \/ res.outcome = "returned") =>
    /\ inst.tag = Direct.tag
    /\ inst.value = Direct.value /\ inst.error = Direct.error
    /\ inst = Direct
    /\ last.op = "isOk" => last.ret = Single(Bool(isOk(Direct)))
    /\ last.op = "isErr" => last.ret = Single(Bool(isErr(Direct)))
    /\ last.op = "unwrap" => last.ret = Single(unwrap(Direct))
    /\ last.op = "pair" => last.ret = pairOf(Direct, Direct.captured)
    /\ last.op = "match" =>
         last.ret = Single(Apply(HandlerOf(Direct, last.onOk, last.onErr).h,
                                 Direct.captured))

\* C23 (as stated): no reachable instance is ambiguous between success and
\* failure: there is no Ok instance whose payload is of the error
\* representation (an Error object).
C23_NoOkWithErrorPayload ==
  ~(inst.methods = "ok" /\ inst.value.kind = "error")
\* C23 (amended): nothing is rejected at construction and the payload's
\* representation decides nothing: ok builds an Ok and err an Err from every
\* payload, an Error object given to ok included, and result with a predicate
\* builds the variant the predicate says; the instance is then of exactly one
\* variant, the one of its constructor.
C23_VariantByConstructorOnly ==
  /\ made.by = "ok" =>
       /\ inst.methods = "ok" /\ inst.value = made.payload
       /\ isOk(inst) /\ ~isErr(inst)
  /\ made.by = "err" =>
       /\ inst.methods = "err" /\ inst.error = made.payload
       /\ isErr(inst) /\ ~isOk(inst)
  /\ (res.outcome = "returned" /\ res.isError \in {"always", "never"}) =>
       /\ inst.methods = IF res.isError = "always" THEN "err" ELSE "ok"
       /\ PayloadField(inst) = res.value
C23_Witness ==
  /\ made.by = "ok"
  /\ made.payload.kind = "error"
  /\ inst.methods = "ok"
  /\ inst.value = made.payload
  /\ last.op = "isErr"
  /\ last.ret = Single(Bool(FALSE))

\* C24: when the pending payload of an instance of either variant rejects,
\* every promise match or pair returned either still has its continuation
\* queued or has rejected with the payload's reason, and no handler, onErr
\* included, has been invoked for it.
C24_RejectionPassesThrough ==
  (inst # NoInst /\ Pending(inst.captured)
     /\ heap[inst.captured.id].state = "rejected") =>
    /\ last.op \notin {"match", "pair"}
    /\ \A p \in Derived("match") \cup Derived("pair") :
         /\ heap[p].state # "fulfilled"
         /\ heap[p].invoked = <<>>
         /\ heap[p].state = "pending" =>
              \E k \in 1..Len(jobs) :
                /\ jobs[k].closure.dst = p
                /\ jobs[k].state = "rejected"
                /\ jobs[k].val = Settled(inst.captured)
         /\ heap[p].state = "rejected" => heap[p].val = heap[inst.captured.id].val
C24_Witness ==
  /\ inst.methods = "err"
  /\ Pending(inst.error)
  /\ heap[inst.error.id].state = "rejected"
  /\ \E p \in Derived("match"), q \in Derived("pair") :
       /\ heap[p].state = "rejected" /\ heap[p].val = heap[inst.error.id].val
       /\ heap[q].state = "rejected" /\ heap[q].val = heap[inst.error.id].val
       /\ heap[p].invoked = <<>>

\* C25: when finally throws, tcf completes with finally's fault and returns no
\* instance, whatever try and catch had produced; when catch throws, finally
\* (if given) still runs, once and last, and tcf completes with catch's fault
\* unless finally threw too; when finally returns, whatever it returns, the
\* instance tcf returns is the one built from try's value or catch's result.
C25_FinallyAndCatchFaults ==
  tcf.pc = "done" =>
    /\ tcf.finally = "threw" =>
         /\ tcf.comp = "throw"
         /\ tcf.thrown = FinallyFault
         /\ inst = NoInst
         /\ tcf.tried = "returned" \/ tcf.catch \in {"returned", "threw"}
    /\ tcf.catch = "threw" =>
         /\ tcf.comp = "throw"
         /\ inst = NoInst
         /\ tcf.fin =>
              /\ Cardinality(Invocations("finally")) = 1
              /\ tcfLog[Len(tcfLog)].fn = "finally"
              /\ tcfLog[Len(tcfLog) - 1].fn = "catch"
         /\ tcf.finally # "threw" => tcf.thrown = CatchFault
    /\ tcf.finally = "returned" =>
         /\ tcf.catch # "threw" =>
              /\ tcf.comp = "return"
              /\ inst = IF tcf.tried = "returned"
                        THEN ok(tcf.value, tcf.tagOk)
                        ELSE err(tcf.caught, tcf.tagError)
C25_Witness ==
  /\ tcf.pc = "done"
  /\ tcf.finally = "returned"
  /\ tcf.finret = Plain(0)
  /\ tcf.tried = "threw"
  /\ tcf.catch = "returned"
  /\ inst = err(tcf.caught, tcf.tagError)

\* C26: when try returns a promise and finally is given, finally runs while
\* tcf is still running, with the promise untouched and nothing attached to
\* it, and has run exactly once by the time tcf has completed; the promise may
\* still be pending then; no match or pair call, and so no handler, exists
\* before finally has run.
C26_FinallyBeforeReturn ==
  (tcf.tried = "returned" /\ Pending(tcf.value) /\ tcf.fin) =>
    /\ tcf.pc = "finally" =>
         /\ Invocations("finally") = {}
         /\ inst = NoInst
         /\ heap[tcf.value.id].state = "pending"
         /\ reactions[tcf.value.id] = <<>>
         /\ Derived("match") \cup Derived("pair") = {}
         /\ last = NoCall
    /\ tcf.pc = "done" =>
         /\ Cardinality(Invocations("finally")) = 1
         /\ tcfLog[Len(tcfLog)].fn = "finally"
    /\ \A p \in Derived("match") \cup Derived("pair") :
         /\ tcf.pc = "done"
         /\ Invocations("finally") # {}
    /\ last.op # "none" => Invocations("finally") # {}
C26_Witness ==
  /\ tcf.pc = "done"
  /\ tcf.tried = "returned"
  /\ tcf.fin
  /\ tcf.finally = "returned"
  /\ Pending(tcf.value)
  /\ inst.value = tcf.value
  /\ heap[tcf.value.id].state = "pending"
  /\ Derived("match") # {}

\* C27: result has called its predicate exactly once, with the value it was
\* given; given a promise it attaches nothing to it, and under the default
\* predicate it returns an Ok whose value is that promise, which is still that
\* Ok after the promise has been fulfilled with an Error object or rejected.
C27_ResultClassifiesHandle ==
  res.impl # "none" =>
    /\ res.asked = <<res.value>>
    /\ Pending(res.value) =>
         /\ heap[res.value.id].owner = "env"
         /\ Derived("match") \cup Derived("pair") = {} =>
              /\ reactions[res.value.id] = <<>>
              /\ jobs = <<>>
         /\ res.isError = "absent" =>
              /\ res.outcome = "returned"
              /\ inst.methods = "ok"
              /\ inst.value = res.value
              /\ inst.error = Missing
C27_Witness ==
  /\ res.impl = "result.ts"
  /\ res.isError = "absent"
  /\ Pending(res.value)
  /\ heap[res.value.id].state = "fulfilled"
  /\ Settled(res.value).kind = "error"
  /\ inst.methods = "ok"
  /\ inst.value = res.value

====
